---- MODULE Spec2Model ----
(***************************************************************************)
(* Narrow links of zulip-mobile: src/src/utils/internalLinks.js.           *)
(*                                                                         *)
(* A link is recognised (isNarrowLink), its fragment is split into tokens  *)
(* (getHashSegmentsFromNarrowLink), decoded into a Narrow                  *)
(* (getNarrowFromNarrowLink) and into an anchor message id                 *)
(* (getNearOperandFromLink); in the other direction a message is encoded   *)
(* into a link (getMessageUrl).                                            *)
(*                                                                         *)
(* JavaScript strings are TLA+ strings; a character is a string of length  *)
(* one.  A function that returns `T | null` or throws returns a record     *)
(* here: Null, Threw(input), Num(n), or a Narrow.                          *)
(***************************************************************************)
EXTENDS Integers, Sequences, FiniteSets, TLC

VARIABLES
    realm,          \* the account's realm URL
    streamsById,    \* Map<number, Stream>: here the set of its Stream values
    streamsByName,  \* Map<string, Stream>: here the set of its Stream values
    ownUserId,      \* the self user's id
    url,            \* the URL being handled
    serverFeatureLevel, \* the server's feature level
    message,        \* the message to share a link to, or NoMessage
    isLink,         \* result of isNarrowLink(url, realm), or NotRun
    narrow,         \* result of getNarrowFromNarrowLink(...), or NotRun
    nearOperand,    \* result of getNearOperandFromLink(...), or NotRun
    text,           \* a topic or stream name to encode
    encoded,        \* result of encodeHashComponent(text), or NotRun
    decoded         \* result of decodeHashComponent(encoded), or NotRun

vars ==
    <<realm, streamsById, streamsByName, ownUserId, serverFeatureLevel, url, message,
      isLink, narrow, nearOperand, text, encoded, decoded>>

----------------------------------------------------------------------------
(* Bounds of the model.                                                    *)

\* Longest token sequence of a hand-written link.
MaxSegs == 6
\* Most streams in the lookup tables.
MaxStreams == 2
\* Most recipients of a direct message.
MaxRecipients == 3
\* Longest text given to the component encoding.
MaxTextLen == 3

----------------------------------------------------------------------------
(* Result values.                                                          *)

NotRun == [type |-> "not-run"]
Null == [type |-> "null"]
\* A thrown URIError; decodeHashComponent's breadcrumb records the input.
Threw(input) == [type |-> "URIError", input |-> input]
Num(n) == [type |-> "number", value |-> n]
\* parseInt's result on a string that starts with no digit.
NaN == -1

IsThrown(r) == r.type = "URIError"

----------------------------------------------------------------------------
(* Strings.                                                                *)

Char(s, i) == SubSeq(s, i, i)

Min(S) == CHOOSE x \in S : \A y \in S : x <= y

\* 1-based index of character c in table t, 0 when absent.
IndexIn(c, t) ==
    LET hits == {i \in 1..Len(t) : Char(t, i) = c}
    IN  IF hits = {} THEN 0 ELSE Min(hits)

Digits == "0123456789"
IsDigit(c) == IndexIn(c, Digits) > 0
DigitVal(c) == IndexIn(c, Digits) - 1

\* /^[0-9]+$/.test(s)
IsDigitRun(s) == Len(s) > 0 /\ \A i \in 1..Len(s) : IsDigit(Char(s, i))

\* Length of the longest prefix of s made of digits.
RECURSIVE DigitPrefixLen(_)
DigitPrefixLen(s) ==
    IF Len(s) > 0 /\ IsDigit(Head(s)) THEN 1 + DigitPrefixLen(Tail(s)) ELSE 0

RECURSIVE DigitsValue(_, _)
DigitsValue(s, acc) ==
    IF Len(s) = 0 THEN acc ELSE DigitsValue(Tail(s), 10 * acc + DigitVal(Head(s)))

\* parseInt(s, 10): optional sign, then the leading digit run; NaN without one.
\* (No token of the model starts with white space, which parseInt would skip.)
parseInt(s) ==
    LET signed == Len(s) > 0 /\ Head(s) \in {"+", "-"}
        body == IF signed THEN Tail(s) ELSE s
        n == DigitPrefixLen(body)
        v == DigitsValue(SubSeq(body, 1, n), 0)
    IN  IF n = 0 THEN NaN
        ELSE IF signed /\ Head(s) = "-" THEN 0 - v ELSE v

\* String.prototype.split(sep) for a one-character separator.
RECURSIVE Split(_, _)
Split(s, sep) ==
    LET i == IndexIn(sep, s)
    IN  IF i = 0 THEN <<s>>
        ELSE <<SubSeq(s, 1, i - 1)>> \o Split(SubSeq(s, i + 1, Len(s)), sep)

\* Array.prototype.join(sep)
RECURSIVE Join(_, _)
Join(parts, sep) ==
    IF Len(parts) = 0 THEN ""
    ELSE IF Len(parts) = 1 THEN parts[1]
    ELSE parts[1] \o sep \o Join(Tail(parts), sep)

\* s.replace(/c/g, r) for a one-character pattern c.
RECURSIVE ReplaceAll(_, _, _)
ReplaceAll(s, c, r) ==
    IF Len(s) = 0 THEN ""
    ELSE (IF Head(s) = c THEN r ELSE Head(s)) \o ReplaceAll(Tail(s), c, r)

Upper == "ABCDEFGHIJKLMNOPQRSTUVWXYZ"
Lower == "abcdefghijklmnopqrstuvwxyz"

LowerChar(c) ==
    LET i == IndexIn(c, Upper) IN IF i > 0 THEN Char(Lower, i) ELSE c

RECURSIVE ToLower(_)
ToLower(s) == IF Len(s) = 0 THEN "" ELSE LowerChar(Head(s)) \o ToLower(Tail(s))

\* Number.prototype.toString() of a non-negative integer.
NumStr(n) == ToString(n)

----------------------------------------------------------------------------
(* Percent-encoding: the built-ins decodeURIComponent / encodeURIComponent. *)

(* Code points of the characters of the model: ranges <<first code, chars>>. *)
(* Characters outside these ranges (control characters, the double quote,   *)
(* the backslash, the grave accent, other non-ASCII text) are outside the   *)
(* model's alphabet; no input of the model holds or encodes one.            *)
CodeRanges ==
    { <<32, " !">>,
      <<35, "#$%&'()*+,-./0123456789:;<=>?@ABCDEFGHIJKLMNOPQRSTUVWXYZ[">>,
      <<93, "]^_">>,
      <<97, "abcdefghijklmnopqrstuvwxyz{|}~">>,
      <<233, "é">>,
      <<8364, "€">> }

HasCode(c) == \E r \in CodeRanges : IndexIn(c, r[2]) > 0

CodeOf(c) ==
    LET r == CHOOSE q \in CodeRanges : IndexIn(c, q[2]) > 0
    IN  r[1] + IndexIn(c, r[2]) - 1

HasChar(cp) == \E r \in CodeRanges : cp >= r[1] /\ cp < r[1] + Len(r[2])

CharOf(cp) ==
    LET r == CHOOSE q \in CodeRanges : cp >= q[1] /\ cp < q[1] + Len(q[2])
    IN  Char(r[2], cp - r[1] + 1)

HexDigits == "0123456789ABCDEF"
HexDigitsLower == "0123456789abcdef"

\* Value of a hexadecimal digit of either case, -1 for any other character.
HexVal(c) ==
    IF IndexIn(c, HexDigits) > 0 THEN IndexIn(c, HexDigits) - 1
    ELSE IndexIn(c, HexDigitsLower) - 1

\* The octet written "%XY" at position i of s, -1 when there is none.
ByteAt(s, i) ==
    IF i + 2 <= Len(s) /\ Char(s, i) = "%"
       /\ HexVal(Char(s, i + 1)) >= 0 /\ HexVal(Char(s, i + 2)) >= 0
    THEN 16 * HexVal(Char(s, i + 1)) + HexVal(Char(s, i + 2))
    ELSE -1

\* Octets of the UTF-8 sequence a lead octet announces; 0 when there is no
\* octet (b < 0) or it cannot lead (a continuation octet, an overlong lead, a
\* lead past U+10FFFF).
Utf8Len(b) ==
    IF b < 0 THEN 0
    ELSE IF b < 128 THEN 1
    ELSE IF b \in 194..223 THEN 2
    ELSE IF b \in 224..239 THEN 3
    ELSE IF b \in 240..244 THEN 4
    ELSE 0

IsCont(b) == b \in 128..191

\* A code point if it is in lo..hi and no surrogate, else -1.
ValidCodePoint(cp, lo, hi) ==
    IF cp >= lo /\ cp <= hi /\ cp \notin 55296..57343 THEN cp ELSE -1

\* The code point of the n-octet sequence b1..bn, -1 if it is not valid UTF-8.
CodePointOf(n, b1, b2, b3, b4) ==
    IF n = 1 THEN b1
    ELSE IF n = 2 THEN
        IF IsCont(b2) THEN (b1 - 192) * 64 + (b2 - 128) ELSE -1
    ELSE IF n = 3 THEN
        IF IsCont(b2) /\ IsCont(b3)
        THEN ValidCodePoint((b1 - 224) * 4096 + (b2 - 128) * 64 + (b3 - 128),
                            2048, 65535)
        ELSE -1
    ELSE IF n = 4 THEN
        IF IsCont(b2) /\ IsCont(b3) /\ IsCont(b4)
        THEN ValidCodePoint((b1 - 240) * 262144 + (b2 - 128) * 4096
                            + (b3 - 128) * 64 + (b4 - 128), 65536, 1114111)
        ELSE -1
    ELSE -1

\* The code point of the n-octet sequence at position i of s, -1 if invalid.
CodePointAt(s, i, n) ==
    CodePointOf(n, ByteAt(s, i), ByteAt(s, i + 3), ByteAt(s, i + 6), ByteAt(s, i + 9))

DecodeFailed == [ok |-> FALSE, value |-> ""]
DecodeCons(c, rest) == [ok |-> rest.ok, value |-> c \o rest.value]

\* decodeURIComponent(s) from position i on: [ok, value]; ok = FALSE is the
\* URIError it throws on a malformed escape or an invalid UTF-8 sequence.
RECURSIVE DecodeFrom(_, _)
RECURSIVE DecodeEscape(_, _, _)
RECURSIVE DecodeChar(_, _, _, _)
DecodeFrom(s, i) ==
    IF i > Len(s) THEN [ok |-> TRUE, value |-> ""]
    ELSE IF Char(s, i) # "%" THEN DecodeCons(Char(s, i), DecodeFrom(s, i + 1))
    ELSE DecodeEscape(s, i, Utf8Len(ByteAt(s, i)))

\* The escape at position i, which announces n octets.
DecodeEscape(s, i, n) ==
    IF n = 0 THEN DecodeFailed ELSE DecodeChar(s, i, n, CodePointAt(s, i, n))

DecodeChar(s, i, n, cp) ==
    IF cp < 0 \/ ~HasChar(cp) THEN DecodeFailed
    ELSE DecodeCons(CharOf(cp), DecodeFrom(s, i + 3 * n))

decodeURIComponent(s) == DecodeFrom(s, 1)

HexByte(b) == "%" \o Char(HexDigits, (b \div 16) + 1) \o Char(HexDigits, (b % 16) + 1)

\* The percent-encoded UTF-8 octets of code point cp (below U+10000).
Utf8Escape(cp) ==
    IF cp < 128 THEN HexByte(cp)
    ELSE IF cp < 2048 THEN HexByte(192 + (cp \div 64)) \o HexByte(128 + (cp % 64))
    ELSE HexByte(224 + (cp \div 4096)) \o HexByte(128 + ((cp \div 64) % 64))
         \o HexByte(128 + (cp % 64))

\* Characters encodeURIComponent leaves as they are.
UriUnreserved == Upper \o Lower \o Digits \o "-_.!~*'()"

RECURSIVE encodeURIComponent(_)
encodeURIComponent(s) ==
    IF Len(s) = 0 THEN ""
    ELSE (IF IndexIn(Head(s), UriUnreserved) > 0 THEN Head(s)
          ELSE Utf8Escape(CodeOf(Head(s))))
         \o encodeURIComponent(Tail(s))

----------------------------------------------------------------------------
(* Collaborators of internalLinks.js that live in other files: the Narrow  *)
(* constructors (utils/narrow), the recipient helpers (utils/recipient),   *)
(* isUrlOnRealm (utils/url) and @zulip/shared's internal_url.              *)

streamNarrow(streamId) == [type |-> "stream", streamId |-> streamId]
topicNarrow(streamId, topic) ==
    [type |-> "topic", streamId |-> streamId, topic |-> topic]
specialNarrow(operand) == [type |-> "special", operand |-> operand]
pmNarrowFromRecipients(recipients) == [type |-> "pm", userIds |-> recipients]

\* The elements of a set of numbers, ascending.
RECURSIVE SortedSeq(_)
SortedSeq(S) ==
    IF S = {} THEN <<>> ELSE <<Min(S)>> \o SortedSeq(S \ {Min(S)})

Range(f) == {f[i] : i \in DOMAIN f}

\* The key of a direct-message conversation: its users without duplicates,
\* ascending, self left out unless the conversation is with self alone.
pmKeyRecipientsFromIds(userIds, own) ==
    LET others == Range(userIds) \ {own}
    IN  IF others = {} THEN <<own>> ELSE SortedSeq(others)

\* All the users of a direct message, self included.
recipientsOfPrivateMessage(msg) ==
    [i \in 1..Len(msg.display_recipient) |-> [id |-> msg.display_recipient[i]]]

pmKeyRecipientsFromMessage(msg, own) ==
    pmKeyRecipientsFromIds(msg.display_recipient, own)

makeUserId(id) == id

Origin(u) == <<u.protocol, u.host>>
isUrlOnRealm(u, r) == Origin(u) = Origin(r)

\* Reversible escaping of one path segment: percent-encoding with every "%"
\* written ".", a literal "." written ".2E" and parentheses escaped.
RECURSIVE HashReplace(_)
HashReplace(s) ==
    IF Len(s) = 0 THEN ""
    ELSE (CASE Head(s) = "%" -> "."
            [] Head(s) = "(" -> ".28"
            [] Head(s) = ")" -> ".29"
            [] Head(s) = "." -> ".2E"
            [] OTHER -> Head(s))
         \o HashReplace(Tail(s))

encodeHashComponent(str) == HashReplace(encodeURIComponent(str))

IsAlnum(c) == IndexIn(c, Lower \o Digits) > 0

\* Lower case, each run of other characters collapsed into one "-".
RECURSIVE Slugify(_, _)
Slugify(name, inRun) ==
    IF Len(name) = 0 THEN ""
    ELSE LET c == LowerChar(Head(name))
         IN  IF IsAlnum(c) THEN c \o Slugify(Tail(name), FALSE)
             ELSE (IF inRun THEN "" ELSE "-") \o Slugify(Tail(name), TRUE)

\* "<id>" for a stream of unknown name, else "<id>-<slug of the name>".
\* maybeName is Null or Str(name).
encode_stream_id(streamId, maybeName) ==
    IF maybeName = Null THEN NumStr(streamId)
    ELSE NumStr(streamId) \o "-" \o Slugify(maybeName.value, FALSE)

----------------------------------------------------------------------------
(* Map lookups.                                                            *)

MapHasId(byId, id) == \E st \in byId : st.stream_id = id
MapHasName(byName, name) == \E st \in byName : st.name = name
MapGetById(byId, id) == CHOOSE st \in byId : st.stream_id = id
MapGetByName(byName, name) == CHOOSE st \in byName : st.name = name

----------------------------------------------------------------------------
(* src/src/utils/internalLinks.js                                          *)

\* hashSegments[i], with JavaScript's 0-based index.
Seg(hashSegments, i) == hashSegments[i + 1]

\* result.splice(-1, 1) when the last element is ''.
DropTrailingEmpty(result) ==
    IF Len(result) > 0 /\ result[Len(result)] = ""
    THEN SubSeq(result, 1, Len(result) - 1)
    ELSE result

getHashSegmentsFromNarrowLink(u) == DropTrailingEmpty(Tail(Split(u.hash, "/")))

\* /^#narrow\//i.test(hash)
TestNarrowRegex(hash) ==
    /\ Len(hash) >= 8
    /\ \A i \in 1..8 : LowerChar(Char(hash, i)) = Char("#narrow/", i)

\* A variant that does not look at the query string.
isNarrowLink_AnyQuery(u, r) ==
    /\ isUrlOnRealm(u, r)
    /\ u.pathname = "/"
    /\ TestNarrowRegex(u.hash)

isNarrowLink(u, r) ==
    /\ isUrlOnRealm(u, r)
    /\ u.pathname = "/"
    /\ u.search = ""
    /\ TestNarrowRegex(u.hash)

Str(value) == [type |-> "string", value |-> value]

\* The decoded string, or the URIError rethrown after the breadcrumb.
DecodeOutcome(string, r) == IF r.ok THEN Str(r.value) ELSE Threw(string)

\* A variant that decodes without writing the dots back as percent signs.
decodeHashComponent_KeepDots(string) ==
    DecodeOutcome(string, decodeURIComponent(string))

decodeHashComponent(string) ==
    DecodeOutcome(string, decodeURIComponent(ReplaceAll(string, ".", "%")))

\* /^([\d]+)(?:-.*)?$/.exec(operand): the first group, or Null without match.
\* (No string of the model holds a line terminator, which "." would refuse.)
StreamOperandMatch(operand) ==
    IF DigitPrefixLen(operand) > 0
       /\ \/ DigitPrefixLen(operand) = Len(operand)
          \/ Char(operand, DigitPrefixLen(operand) + 1) = "-"
    THEN Str(SubSeq(operand, 1, DigitPrefixLen(operand)))
    ELSE Null

\* match ? parseInt(match[1], 10) : null
NewFormatStreamId(match) ==
    IF match # Null THEN Num(parseInt(match.value)) ELSE Null

\* The old format, tried when the new format found no known stream: the
\* stream of that name, else the new format's id, else null.
OldFormatStreamId(streamName, newFormatStreamId, byName) ==
    IF IsThrown(streamName) THEN streamName
    ELSE IF MapHasName(byName, streamName.value)
    THEN Num(MapGetByName(byName, streamName.value).stream_id)
    ELSE IF newFormatStreamId # Null THEN newFormatStreamId
    ELSE Null

StreamIdOf(operand, newFormatStreamId, byId, byName) ==
    IF newFormatStreamId # Null /\ MapHasId(byId, newFormatStreamId.value)
    THEN newFormatStreamId
    ELSE OldFormatStreamId(decodeHashComponent(operand), newFormatStreamId, byName)

parseStreamOperand(operand, byId, byName) ==
    StreamIdOf(operand, NewFormatStreamId(StreamOperandMatch(operand)), byId, byName)

parseTopicOperand(operand) == decodeHashComponent(operand)

\* A variant that stops at the first comma.
parsePmOperand_FirstOnly(operand) ==
    <<makeUserId(parseInt(Split(Split(operand, "-")[1], ",")[1]))>>

parsePmOperand(operand) ==
    LET idStrs == Split(Split(operand, "-")[1], ",")
    IN  [i \in 1..Len(idStrs) |-> makeUserId(parseInt(idStrs[i]))]

\* A variant that knows the operator dm only in the form without an anchor.
IsPmShape_NoDmAnchor(hashSegments) ==
    \/ /\ Len(hashSegments) = 2
       /\ (Seg(hashSegments, 0) = "pm-with" \/ Seg(hashSegments, 0) = "dm")
    \/ /\ Len(hashSegments) = 4
       /\ Seg(hashSegments, 0) = "pm-with"
       /\ (Seg(hashSegments, 2) = "near" \/ Seg(hashSegments, 2) = "with")

\* The four conditions of getNarrowFromNarrowLink, in its order.
IsPmShape(hashSegments) ==
    \/ /\ Len(hashSegments) = 2
       /\ (Seg(hashSegments, 0) = "pm-with" \/ Seg(hashSegments, 0) = "dm")
    \/ /\ Len(hashSegments) = 4
       /\ (Seg(hashSegments, 0) = "pm-with" \/ Seg(hashSegments, 0) = "dm")
       /\ (Seg(hashSegments, 2) = "near" \/ Seg(hashSegments, 2) = "with")

IsTopicShape(hashSegments) ==
    \/ /\ Len(hashSegments) = 4
       /\ (Seg(hashSegments, 0) = "stream" \/ Seg(hashSegments, 0) = "channel")
       /\ (Seg(hashSegments, 2) = "subject" \/ Seg(hashSegments, 2) = "topic")
    \/ /\ Len(hashSegments) = 6
       /\ (Seg(hashSegments, 0) = "stream" \/ Seg(hashSegments, 0) = "channel")
       /\ (Seg(hashSegments, 2) = "subject" \/ Seg(hashSegments, 2) = "topic")
       /\ (Seg(hashSegments, 4) = "near" \/ Seg(hashSegments, 4) = "with")

\* A variant that does not look at the number of segments.
IsStreamShape_AnyLength(hashSegments) ==
    /\ Len(hashSegments) >= 2
    /\ (Seg(hashSegments, 0) = "stream" \/ Seg(hashSegments, 0) = "channel")

IsStreamShape(hashSegments) ==
    /\ Len(hashSegments) = 2
    /\ (Seg(hashSegments, 0) = "stream" \/ Seg(hashSegments, 0) = "channel")

IsSpecialShape(hashSegments) ==
    /\ Len(hashSegments) = 2
    /\ Seg(hashSegments, 0) = "is"
    /\ \/ Seg(hashSegments, 1) = "starred"
       \/ Seg(hashSegments, 1) = "mentioned"
       \/ Seg(hashSegments, 1) = "dm"
       \/ Seg(hashSegments, 1) = "private"

\* topicNarrow(streamId, parseTopicOperand(...)), the decoding error passed on.
TopicNarrowWith(streamId, topic) ==
    IF IsThrown(topic) THEN topic ELSE topicNarrow(streamId.value, topic.value)

\* streamId != null ? topicNarrow(streamId, parseTopicOperand(operand)) : null
TopicNarrowOf(streamId, operand) ==
    IF IsThrown(streamId) THEN streamId
    ELSE IF streamId = Null THEN Null
    ELSE TopicNarrowWith(streamId, parseTopicOperand(operand))

\* streamId != null ? streamNarrow(streamId) : null
StreamNarrowOf(streamId) ==
    IF IsThrown(streamId) THEN streamId
    ELSE IF streamId = Null THEN Null
    ELSE streamNarrow(streamId.value)

\* The switch over the operand of `is`.
SpecialNarrowOf(operand) ==
    CASE operand = "starred" -> specialNarrow("starred")
      [] operand = "mentioned" -> specialNarrow("mentioned")
      [] operand \in {"dm", "private"} -> specialNarrow("dm")

NarrowOfSegments(hashSegments, byId, byName, own) ==
    IF IsPmShape(hashSegments) THEN
        pmNarrowFromRecipients(
            pmKeyRecipientsFromIds(parsePmOperand(Seg(hashSegments, 1)), own))
    ELSE IF IsTopicShape(hashSegments) THEN
        TopicNarrowOf(parseStreamOperand(Seg(hashSegments, 1), byId, byName),
                      Seg(hashSegments, 3))
    ELSE IF IsStreamShape(hashSegments) THEN
        StreamNarrowOf(parseStreamOperand(Seg(hashSegments, 1), byId, byName))
    ELSE IF IsSpecialShape(hashSegments) THEN
        SpecialNarrowOf(Seg(hashSegments, 1))
    ELSE Null

getNarrowFromNarrowLink(u, r, byId, byName, own) ==
    NarrowOfSegments(getHashSegmentsFromNarrowLink(u), byId, byName, own)

\* The predicate given to findIndex: an operator position holding near/with.
\* A variant that accepts near/with at an operand position too.
IsNearOperatorAt_AnyIndex(hashSegments, i) ==
    Seg(hashSegments, i) = "near" \/ Seg(hashSegments, i) = "with"

IsNearOperatorAt(hashSegments, i) ==
    /\ i % 2 = 0
    /\ (Seg(hashSegments, i) = "near" \/ Seg(hashSegments, i) = "with")

\* hashSegments.findIndex(...): the first index that satisfies it, else -1.
FindNearOperatorIndex(hashSegments) ==
    IF \E i \in 0..(Len(hashSegments) - 1) : IsNearOperatorAt(hashSegments, i)
    THEN Min({i \in 0..(Len(hashSegments) - 1) : IsNearOperatorAt(hashSegments, i)})
    ELSE -1

\* The operand that follows the operator found, parsed, or null.
NearOperandAt(hashSegments, nearOperatorIndex) ==
    IF nearOperatorIndex < 0 THEN Null
    \* Past the end the operand is undefined, which the pattern refuses.
    ELSE IF nearOperatorIndex + 1 >= Len(hashSegments) THEN Null
    ELSE IF ~IsDigitRun(Seg(hashSegments, nearOperatorIndex + 1)) THEN Null
    ELSE Num(parseInt(Seg(hashSegments, nearOperatorIndex + 1)))

NearOperandOfSegments(hashSegments) ==
    NearOperandAt(hashSegments, FindNearOperatorIndex(hashSegments))

getNearOperandFromLink(u, r) ==
    NearOperandOfSegments(getHashSegmentsFromNarrowLink(u))

\* new URL(path, r) for a path that is only a fragment.
NewUrl(path, r) == [r EXCEPT !.hash = path]

\* streamsById.get(id)?.name
StreamNameOf(byId, id) ==
    IF MapHasId(byId, id) THEN Str(MapGetById(byId, id).name) ELSE Null

\* A variant that puts the topic into the path as it is.
getStreamTopicUrl_RawTopic(r, streamId, topic, byId) ==
    NewUrl("#narrow/stream/"
               \o encode_stream_id(streamId, StreamNameOf(byId, streamId))
               \o "/topic/" \o topic,
           r)

getStreamTopicUrl(r, streamId, topic, byId) ==
    LET encodedStreamId == encode_stream_id(streamId, StreamNameOf(byId, streamId))
        encodedTopic == encodeHashComponent(topic)
        path == "#narrow/stream/" \o encodedStreamId \o "/topic/" \o encodedTopic
    IN  NewUrl(path, r)

\* Insertion of x into an ascending sequence: Array.prototype.sort((a, b) => a - b).
RECURSIVE InsertSorted(_, _)
InsertSorted(x, sorted) ==
    IF Len(sorted) = 0 THEN <<x>>
    ELSE IF x <= Head(sorted) THEN <<x>> \o sorted
    ELSE <<Head(sorted)>> \o InsertSorted(x, Tail(sorted))

\* A variant that sorts as Array.prototype.sort() without a comparator does:
\* by the ids' decimal text ("10" before "2"), for ids below 100.
RECURSIVE SortNumeric_AsText(_)
SortNumeric_AsText(xs) ==
    IF Len(xs) = 0 THEN <<>>
    ELSE LET key(n) == IF n < 10 THEN 100 * n ELSE 10 * n + 1
             rest == SortNumeric_AsText(Tail(xs))
             before == {i \in 1..Len(rest) : key(rest[i]) < key(Head(xs))}
         IN  SubSeq(rest, 1, Cardinality(before)) \o <<Head(xs)>>
             \o SubSeq(rest, Cardinality(before) + 1, Len(rest))

RECURSIVE SortNumeric(_)
SortNumeric(xs) ==
    IF Len(xs) = 0 THEN <<>> ELSE InsertSorted(Head(xs), SortNumeric(Tail(xs)))

\* recipients.map(r => r.id)
IdsOf(recipients) == [i \in 1..Len(recipients) |-> recipients[i].id]

\* recipientIds.join(',')
JoinIds(recipientIds) ==
    Join([i \in 1..Len(recipientIds) |-> NumStr(recipientIds[i])], ",")

PmConversationLink(r, recipientIds, zulipFeatureLevel) ==
    LET suffix == IF Len(recipientIds) >= 3 THEN "group"
                  ELSE IF zulipFeatureLevel >= 177 THEN "dm" ELSE "pm"
        slug == JoinIds(recipientIds) \o "-" \o suffix
        operator == IF zulipFeatureLevel >= 177 THEN "dm" ELSE "pm-with"
    IN  NewUrl("#narrow/" \o operator \o "/" \o slug, r)

getPmConversationLinkForMessage(r, msg, zulipFeatureLevel) ==
    PmConversationLink(r, SortNumeric(IdsOf(recipientsOfPrivateMessage(msg))),
                       zulipFeatureLevel)

\* result.hash += `/near/${message.id}`
AppendNear(result, id) ==
    [result EXCEPT !.hash = result.hash \o "/near/" \o NumStr(id)]

getMessageUrl(r, msg, byId, zulipFeatureLevel) ==
    AppendNear(IF msg.type = "stream"
               THEN getStreamTopicUrl(r, msg.stream_id, msg.subject, byId)
               ELSE getPmConversationLinkForMessage(r, msg, zulipFeatureLevel),
               msg.id)

----------------------------------------------------------------------------
(* Inputs.                                                                 *)

NoMessage == [type |-> "none"]

TheRealm ==
    [protocol |-> "https:", host |-> "chat.example", pathname |-> "/",
     search |-> "", hash |-> ""]

\* A link on the realm whose fragment holds the given tokens.
LinkOf(segs) == [TheRealm EXCEPT !.hash = "#narrow/" \o Join(segs, "/")]

\* One stream is known by id 5; another, of id 3, is named "5": a name that
\* reads as an id.
StreamPool ==
    { [stream_id |-> 5, name |-> "general"],
      [stream_id |-> 3, name |-> "5"],
      [stream_id |-> 42, name |-> "mobile team"] }

StreamTables == {T \in SUBSET StreamPool : Cardinality(T) <= MaxStreams}

OwnIds == {1, 2}
FeatureLevels == {176, 177}

\* Tokens a hand-written link may hold at position pos (1-based): operators
\* and their aliases, in other letter case or encoded, operands, and operator
\* names in operand position.
TokAt(pos) ==
    CASE pos = 1 -> {"stream", "channel", "pm-with", "dm", "is", "topic",
                     "Stream", "strea.6D", "near"}
      [] pos = 2 -> {"5-x", "1,2", "starred", "private", "dm", "near", ""}
      [] pos = 3 -> {"topic", "subject", "near", "with", "stream", "Topic"}
      [] pos = 4 -> {"general", "1000", "1.30"}
      [] pos = 5 -> {"near", "with", "topic", "NEAR"}
      [] pos = 6 -> {"1000", "10x", "+7", ""}
      [] OTHER -> {"near"}

RECURSIVE SegsOfLen(_)
SegsOfLen(n) ==
    IF n = 0 THEN {<<>>}
    ELSE {Append(segs, t) : segs \in SegsOfLen(n - 1), t \in TokAt(n)}

ShapeLinks == {LinkOf(segs) : segs \in UNION {SegsOfLen(n) : n \in 0..MaxSegs}}

\* Operands of stream/channel: ids known and unknown, with and without a
\* name part, names old-style, and text that is not valid dot-encoding.
StreamOperands ==
    {"5", "5-general", "5-.zz", "05", "7", "7-secret", "7-.zz", "7-100%",
     "99-.C3", "general", "mobile.20team", "mobile%20team", "nosuch", ".zz",
     "x.8", "5x"}
TopicOperands == {"general", "a.20b", ".C3.A9", ".zz", "100%"}
PmOperands ==
    {"1", "2", "1,2", "2,1", "1,2-pm", "1,2,3-group", "3,1,2", "1,1", "2,2,3",
     "12,abc-dm", "abc", "", "1,", "1,2x-dm", "3,4"}

OperandLinks ==
    {LinkOf(<<op, operand>>) :
        op \in {"stream", "channel"}, operand \in StreamOperands}
    \cup {LinkOf(<<"stream", operand, "topic", topic>>) :
        operand \in StreamOperands, topic \in TopicOperands}
    \cup {LinkOf(<<"channel", operand, "subject", topic, "near", "1000">>) :
        operand \in {"5", "7-.zz", "nosuch"}, topic \in TopicOperands}
    \cup {LinkOf(<<op, operand>>) : op \in {"dm", "pm-with"}, operand \in PmOperands}
    \cup {LinkOf(<<"dm", operand, "near", "1000">>) : operand \in PmOperands}

\* URLs of every kind, narrow links or not.
AnyUrls ==
    [protocol : {"https:", "http:"},
     host : {"chat.example", "evil.example", "sub.chat.example", "chat.example:8080"},
     pathname : {"/", "/x", "/narrow/"},
     search : {"", "?a=1"},
     hash : {"", "#narrow", "#narrow/", "#narrow/is/starred", "#NARROW/is/starred",
             "#Narrow/stream/5", "#narro/is/starred", "#xnarrow/is/starred",
             "#/narrow/is/starred", "#narrow?/x", "#narrow/near/12"}]

\* User ids of one and of two digits: 10 sorts after 2 as a number, before it
\* as text.
Users == {1, 2, 3, 10}

\* The sequences of n distinct elements of S.
RECURSIVE DistinctSeqs(_, _)
DistinctSeqs(S, n) ==
    IF n = 0 THEN {<<>>}
    ELSE UNION {{Append(q, x) : x \in S \ Range(q)} : q \in DistinctSeqs(S, n - 1)}

Topics == {"general", "", "a b", "a/b", "v1.2", "100%", "near", "(x)", "café €5"}
StreamIds == {5, 3, 7}
MessageIds == {1000, 7}


\* The messages the user `own` can share: stream messages, and direct messages
\* whose recipients, in any order, include `own`.
Messages(own) ==
    [type : {"stream"}, id : MessageIds, stream_id : StreamIds, subject : Topics]
    \cup {[type |-> "private", id |-> i, display_recipient |-> q] :
            i \in MessageIds,
            q \in {d \in UNION {DistinctSeqs(Users, n) : n \in 1..MaxRecipients} :
                     own \in Range(d)}}

----------------------------------------------------------------------------
(* The state machine: a URL is tested, then decoded; a message is shared.  *)

InitWith(tables, owns, levels, urls, hasMessage) ==
    /\ realm = TheRealm
    /\ \E T \in tables : streamsById = T /\ streamsByName = T
    /\ ownUserId \in owns
    /\ serverFeatureLevel \in levels
    /\ url \in urls
    /\ IF hasMessage THEN message \in Messages(ownUserId) ELSE message = NoMessage
    /\ isLink = NotRun
    /\ narrow = NotRun
    /\ nearOperand = NotRun
    /\ text = ""
    /\ encoded = NotRun
    /\ decoded = NotRun

inputs == <<realm, streamsById, streamsByName, ownUserId, serverFeatureLevel>>
codec == <<text, encoded, decoded>>
links == <<url, message, isLink, narrow, nearOperand>>

\* A caller tests the URL it was given.
IsNarrowLink ==
    /\ isLink = NotRun
    /\ message = NoMessage \/ url.hash # ""
    /\ isLink' = [type |-> "boolean", value |-> isNarrowLink(url, realm)]
    /\ UNCHANGED <<inputs, codec, url, message, narrow, nearOperand>>

\* The decoders require isNarrowLink(url, realm).
IsKnownLink == isLink = [type |-> "boolean", value |-> TRUE]

GetNarrowFromNarrowLink ==
    /\ IsKnownLink
    /\ narrow = NotRun
    /\ narrow' = getNarrowFromNarrowLink(url, realm, streamsById, streamsByName, ownUserId)
    /\ UNCHANGED <<inputs, codec, url, message, isLink, nearOperand>>

GetNearOperandFromLink ==
    /\ IsKnownLink
    /\ nearOperand = NotRun
    /\ nearOperand' = getNearOperandFromLink(url, realm)
    /\ UNCHANGED <<inputs, codec, url, message, isLink, narrow>>

\* The user shares a link to the message.
GetMessageUrl ==
    /\ message # NoMessage
    /\ url.hash = ""
    /\ url' = getMessageUrl(realm, message, streamsById, serverFeatureLevel)
    /\ UNCHANGED <<inputs, codec, message, isLink, narrow, nearOperand>>

\* A name is encoded for a link.
EncodeHashComponent ==
    /\ encoded = NotRun
    /\ encoded' = Str(encodeHashComponent(text))
    /\ UNCHANGED <<inputs, links, text, decoded>>

\* The encoded name is read back from the link.
DecodeHashComponent ==
    /\ encoded # NotRun
    /\ decoded = NotRun
    /\ decoded' = decodeHashComponent(encoded.value)
    /\ UNCHANGED <<inputs, links, text, encoded>>

Next ==
    \/ IsNarrowLink
    \/ GetNarrowFromNarrowLink
    \/ GetNearOperandFromLink

NextShare ==
    \/ GetMessageUrl
    \/ IsNarrowLink
    \/ GetNarrowFromNarrowLink
    \/ GetNearOperandFromLink

\* Hand-written links of every token shape.
Init == InitWith({{[stream_id |-> 5, name |-> "general"]}}, {1}, {177}, ShapeLinks, FALSE)
Spec == Init /\ [][Next]_vars

\* Links of the known shapes, over operands and lookup tables of every kind.
InitOperands == InitWith(StreamTables, OwnIds, {177}, OperandLinks, FALSE)
SpecOperands == InitOperands /\ [][Next]_vars

\* URLs that are narrow links or not.
InitRecognize == InitWith({{}}, {1}, {177}, AnyUrls, FALSE)
SpecRecognize == InitRecognize /\ [][Next]_vars

\* Streams whose names are operator words or hold the separator of tokens.
NamedStreams ==
    { [stream_id |-> 5, name |-> "near"],
      [stream_id |-> 3, name |-> "with"],
      [stream_id |-> 7, name |-> "a/b"] }

NamedTables == {T \in SUBSET NamedStreams : Cardinality(T) <= MaxStreams}

\* Messages of such streams shared as links, the links then decoded.
InitAnchor == InitWith(NamedTables, {1}, FeatureLevels, {TheRealm}, TRUE)
SpecAnchor == InitAnchor /\ [][NextShare]_vars

\* Texts of up to MaxTextLen characters: a digit, the separators of links and
\* of the encoding, characters the encoding escapes, non-ASCII characters.
TextChars == {"/", "%", ".", " ", "(", "2", "é", "€"}

RECURSIVE TextsOfLen(_)
TextsOfLen(n) ==
    IF n = 0 THEN {""} ELSE {t \o c : t \in TextsOfLen(n - 1), c \in TextChars}

Texts == UNION {TextsOfLen(n) : n \in 0..MaxTextLen}

NextCodec ==
    \/ EncodeHashComponent
    \/ DecodeHashComponent

\* Names encoded and read back.
InitCodec ==
    /\ realm = TheRealm
    /\ streamsById = {}
    /\ streamsByName = {}
    /\ ownUserId = 1
    /\ serverFeatureLevel = 177
    /\ url = TheRealm
    /\ message = NoMessage
    /\ isLink = NotRun
    /\ narrow = NotRun
    /\ nearOperand = NotRun
    /\ text \in Texts
    /\ encoded = NotRun
    /\ decoded = NotRun
SpecCodec == InitCodec /\ [][NextCodec]_vars

\* Messages shared as links, the links then decoded.
InitShare == InitWith(StreamTables, OwnIds, FeatureLevels, {TheRealm}, TRUE)
SpecShare == InitShare /\ [][NextShare]_vars

----------------------------------------------------------------------------
(* Vocabulary of the properties.                                           *)

\* The token sequence of the URL being handled.
Segs == getHashSegmentsFromNarrowLink(url)

StreamOps == {"stream", "channel"}
TopicOps == {"subject", "topic"}
PmOps == {"pm-with", "dm"}
NearOps == {"near", "with"}

\* The narrow decoder has returned a Narrow: neither null nor an error.
IsNarrow(r) == r.type \in {"stream", "topic", "pm", "special"}

\* x is valid dot-encoded text.
IsDotEncoded(x) == decodeURIComponent(ReplaceAll(x, ".", "%")).ok
DotDecoded(x) == decodeURIComponent(ReplaceAll(x, ".", "%")).value

\* operand is a digit run, optionally followed by "-" and anything.
IdPrefixLens(operand) ==
    {k \in 1..Len(operand) :
        /\ IsDigitRun(SubSeq(operand, 1, k))
        /\ (k = Len(operand) \/ Char(operand, k + 1) = "-")}
HasIdFormat(operand) == IdPrefixLens(operand) # {}
IdOf(operand) == DigitsValue(SubSeq(operand, 1, Min(IdPrefixLens(operand))), 0)

\* A link stream/<operand> or channel/<operand>, decoded.
StreamLinkDecoded ==
    /\ narrow # NotRun
    /\ Len(Segs) = 2
    /\ Segs[1] \in StreamOps

----------------------------------------------------------------------------
(* C1: the channel operand parser returns the result of the ordered chain: *)
(* the id when the operand has the id format and byId knows it; else the   *)
(* id of the stream byName holds under the dot-decoded operand; else the   *)
(* id when the operand has the id format; else null.  Stated on the links  *)
(* stream/<operand>, whose narrow is the parser's result.                  *)

ChainResult(operand, byId, byName) ==
    IF HasIdFormat(operand) /\ \E st \in byId : st.stream_id = IdOf(operand)
    THEN Num(IdOf(operand))
    ELSE IF IsDotEncoded(operand) /\ \E st \in byName : st.name = DotDecoded(operand)
    THEN Num((CHOOSE st \in byName : st.name = DotDecoded(operand)).stream_id)
    ELSE IF HasIdFormat(operand) THEN Num(IdOf(operand))
    ELSE Null

ChainNarrow(operand, byId, byName) ==
    IF ChainResult(operand, byId, byName) = Null THEN Null
    ELSE streamNarrow(ChainResult(operand, byId, byName).value)

C1_OperandChain ==
    StreamLinkDecoded => narrow = ChainNarrow(Segs[2], streamsById, streamsByName)

(* C2: a link whose channel or topic operand is not valid dot-encoded text *)
(* decodes to null: never an error, never a narrow.                        *)

HasMalformedOperand ==
    \/ /\ Len(Segs) = 2
       /\ Segs[1] \in StreamOps
       /\ ~IsDotEncoded(Segs[2])
    \/ /\ Len(Segs) \in {4, 6}
       /\ Segs[1] \in StreamOps
       /\ Segs[3] \in TopicOps
       /\ Len(Segs) = 6 => Segs[5] \in NearOps
       /\ ~IsDotEncoded(Segs[2]) \/ ~IsDotEncoded(Segs[4])

C2_MalformedOperandIsNull ==
    (narrow # NotRun /\ HasMalformedOperand) => narrow = Null

(* C3: a pm-with/dm link with a piece of its operand (before the first     *)
(* "-", between commas) that is no base-10 integer decodes to null.        *)

IsPmLink ==
    /\ Len(Segs) \in {2, 4}
    /\ Segs[1] \in PmOps
    /\ Len(Segs) = 4 => Segs[3] \in NearOps

PmPieces(operand) == Split(Split(operand, "-")[1], ",")

HasBadPmPiece(operand) ==
    \E i \in 1..Len(PmPieces(operand)) : ~IsDigitRun(PmPieces(operand)[i])

C3_BadPmOperandIsNull ==
    (narrow # NotRun /\ IsPmLink /\ HasBadPmPiece(Segs[2])) => narrow = Null

(* C4: a message's link decodes to the narrow of the message's             *)
(* conversation: for every message, feature level and lookup tables.       *)

ConversationNarrow(msg, own) ==
    IF msg.type = "stream" THEN topicNarrow(msg.stream_id, msg.subject)
    ELSE pmNarrowFromRecipients(pmKeyRecipientsFromMessage(msg, own))

\* A link was built for the message and decoded.
MessageLinkDecoded == message # NoMessage /\ narrow # NotRun

C4_RoundTrip ==
    MessageLinkDecoded => narrow = ConversationNarrow(message, ownUserId)

(* C4, amended: the round trip holds for every direct message, and for     *)
(* every stream message whose stream byId knows or whose link's channel    *)
(* operand is the name of no stream in byName.                             *)

OperandNamesAStream == MapHasName(streamsByName, DotDecoded(Segs[2]))

C4_RoundTripUnlessNameClash ==
    (/\ MessageLinkDecoded
     /\ message.type = "stream" =>
            \/ MapHasId(streamsById, message.stream_id)
            \/ ~OperandNamesAStream)
    => narrow = ConversationNarrow(message, ownUserId)

\* A stream byId does not know, a topic that needs escaping: round trip.
C4_Witness ==
    /\ MessageLinkDecoded
    /\ message.type = "stream"
    /\ ~MapHasId(streamsById, message.stream_id)
    /\ message.subject = "a/b"
    /\ narrow = topicNarrow(message.stream_id, "a/b")

(* C5: a link stream/<operand> whose operand has the id format, with an id *)
(* byId lacks and no stream of byName resolving the operand, decodes to    *)
(* the channel narrow of that id, whatever follows the "-".                *)

OperandResolvesByName(operand, byName) ==
    IsDotEncoded(operand) /\ MapHasName(byName, DotDecoded(operand))

IsHiddenChannelLink ==
    /\ StreamLinkDecoded
    /\ HasIdFormat(Segs[2])
    /\ ~MapHasId(streamsById, IdOf(Segs[2]))
    /\ ~OperandResolvesByName(Segs[2], streamsByName)

C5_HiddenChannel ==
    IsHiddenChannelLink => narrow = streamNarrow(IdOf(Segs[2]))

(* C6: a direct-message narrow decoded from an operand of digit runs       *)
(* joined by "," carries a non-empty list of distinct user ids, and is the *)
(* same for every order of the ids in the operand.                         *)

IsIdList(operand) == ~HasBadPmPiece(operand)

\* The sequences that hold the elements of q in another order.
Reorderings(q) ==
    {[i \in 1..Len(q) |-> q[f[i]]] :
        f \in {g \in [1..Len(q) -> 1..Len(q)] :
                 \A i, j \in 1..Len(q) : g[i] = g[j] => i = j}}

\* The token sequence with the ids of its pm operand in the order `pieces`.
WithPmPieces(segs, pieces) == [segs EXCEPT ![2] = Join(pieces, ",")]

PmLinkDecoded == narrow # NotRun /\ IsPmLink /\ IsIdList(Segs[2])

AnyOperand == {}

\* The table: per position, the tokens allowed there (AnyOperand: every token).
ShapeTable ==
    { <<PmOps, AnyOperand>>,
      <<PmOps, AnyOperand, NearOps, AnyOperand>>,
      <<StreamOps, AnyOperand, TopicOps, AnyOperand>>,
      <<StreamOps, AnyOperand, TopicOps, AnyOperand, NearOps, AnyOperand>>,
      <<StreamOps, AnyOperand>>,
      <<{"is"}, {"starred", "mentioned", "dm", "private"}>> }

MatchesShape(segs, shape) ==
    /\ Len(segs) = Len(shape)
    /\ \A i \in 1..Len(shape) : shape[i] = AnyOperand \/ segs[i] \in shape[i]

InShapeTable(segs) == \E shape \in ShapeTable : MatchesShape(segs, shape)

C7_OnlyTableShapes ==
    narrow # NotRun =>
        /\ IsNarrow(narrow) => InShapeTable(Segs)
        /\ ~InShapeTable(Segs) => narrow = Null

\* stream and topic swapped: null.
C7_Witness ==
    /\ narrow = Null
    /\ Segs = <<"topic", "5-x", "stream", "general">>

(* C8: the anchor is null when no even-indexed token is near/with; else    *)
(* the token after the first such one, as a number, when it is a non-empty *)
(* run of digits, and null in every other case.                            *)

\* 1-based positions of the operators near/with: the odd ones.
NearPositions(segs) == {i \in 1..Len(segs) : i % 2 = 1 /\ segs[i] \in NearOps}

ExpectedAnchor(segs) ==
    IF NearPositions(segs) = {} THEN Null
    ELSE LET p == Min(NearPositions(segs))
         IN  IF p < Len(segs) /\ IsDigitRun(segs[p + 1])
             THEN Num(DigitsValue(segs[p + 1], 0))
             ELSE Null

C8_NearAnchor == nearOperand # NotRun => nearOperand = ExpectedAnchor(Segs)

\* The first near has no number after it; the well-formed pair that follows
\* is not considered.
C8_Witness ==
    /\ nearOperand = Null
    /\ Segs = <<"near", "5-x", "near", "1000">>

(* C9: replacing an operator by its alias (stream/channel, subject/topic,  *)
(* pm-with/dm, near/with), or the operand of `is` between private and dm,  *)
(* changes neither the narrow decoded nor the anchor.                      *)

AliasClasses == {StreamOps, TopicOps, PmOps, NearOps}

\* The other member of t's alias class.
AliasOf(t) ==
    LET class == CHOOSE c \in AliasClasses : t \in c
    IN  CHOOSE a \in class : a # t

HasAlias(t) == \E c \in AliasClasses : t \in c

\* The token sequences that differ from segs by one such replacement.
AliasVariants(segs) ==
    {[segs EXCEPT ![i] = AliasOf(segs[i])] :
        i \in {j \in 1..Len(segs) : j % 2 = 1 /\ HasAlias(segs[j])}}
    \cup
    {[segs EXCEPT ![i + 1] = IF segs[i + 1] = "dm" THEN "private" ELSE "dm"] :
        i \in {j \in 1..(Len(segs) - 1) :
                 j % 2 = 1 /\ segs[j] = "is" /\ segs[j + 1] \in {"dm", "private"}}}

C9_Aliases ==
    /\ narrow # NotRun =>
          \A v \in AliasVariants(Segs) :
              NarrowOfSegments(v, streamsById, streamsByName, ownUserId) = narrow
    /\ nearOperand # NotRun =>
          \A v \in AliasVariants(Segs) : NearOperandOfSegments(v) = nearOperand

\* Three operators that all have an alias, decoded to a narrow and an anchor.
C9_Witness ==
    /\ Segs = <<"channel", "5-x", "subject", "general", "with", "1000">>
    /\ narrow = topicNarrow(5, "general")
    /\ nearOperand = Num(1000)

(* C10: isNarrowLink is true exactly when the URL has the realm's scheme   *)
(* and host (with port), the path "/", an empty query, and a fragment that *)
(* begins with "narrow/" in any letter case.                               *)

FragmentOf(u) == IF Len(u.hash) > 0 THEN Tail(u.hash) ELSE ""

BeginsWithNarrow(fragment) ==
    /\ Len(fragment) >= 7
    /\ ToLower(SubSeq(fragment, 1, 7)) = "narrow/"

IsRealmNarrowUrl(u, r) ==
    /\ u.protocol = r.protocol
    /\ u.host = r.host
    /\ u.pathname = "/"
    /\ u.search = ""
    /\ BeginsWithNarrow(FragmentOf(u))

C10_IsNarrowLink ==
    isLink # NotRun => (isLink.value <=> IsRealmNarrowUrl(url, realm))

\* A fragment in upper case is accepted.
C10_Witness ==
    /\ isLink # NotRun
    /\ isLink.value
    /\ url.hash = "#NARROW/is/starred"

(* C11: the link of a direct-message conversation has the fragment         *)
(* #narrow/<operator>/<ids>-<suffix>: the ids of all recipients ascending  *)
(* as numbers, joined by ","; the suffix group for 3 or more recipients,   *)
(* else dm from feature level 177 and pm below; the operator dm from       *)
(* feature level 177 and pm-with below.  The recipients' order in the      *)
(* message does not matter.  Stated on the shared link, which is this      *)
(* fragment followed by /near/<message id>.                                *)

\* The ids of the set S, ascending: the i-th has i - 1 smaller ids before it.
Ascending(S) ==
    [i \in 1..Cardinality(S) |->
        CHOOSE x \in S : Cardinality({y \in S : y < x}) = i - 1]

ExpectedPmSuffix(n, fl) ==
    IF n >= 3 THEN "group" ELSE IF fl >= 177 THEN "dm" ELSE "pm"

ExpectedPmOperator(fl) == IF fl >= 177 THEN "dm" ELSE "pm-with"

ExpectedPmFragment(ids, fl) ==
    "#narrow/" \o ExpectedPmOperator(fl) \o "/"
        \o Join([i \in 1..Cardinality(ids) |-> ToString(Ascending(ids)[i])], ",")
        \o "-" \o ExpectedPmSuffix(Cardinality(ids), fl)

\* A link was built for a direct message.
PmLinkBuilt == message # NoMessage /\ message.type = "private" /\ url.hash # ""

C11_PmConversationLink ==
    PmLinkBuilt =>
        /\ url.hash = ExpectedPmFragment(Range(message.display_recipient),
                                         serverFeatureLevel)
                          \o "/near/" \o ToString(message.id)
        /\ \A q \in Reorderings(message.display_recipient) :
              getMessageUrl(realm, [message EXCEPT !.display_recipient = q],
                            streamsById, serverFeatureLevel) = url

\* Two recipients given as 10, 2 below feature level 177: 2 comes first.
C11_Witness ==
    /\ PmLinkBuilt
    /\ message.display_recipient = <<10, 2>>
    /\ serverFeatureLevel = 176
    /\ url.hash = "#narrow/pm-with/2,10-pm/near/1000"

(* C12: a text encoded by encodeHashComponent and decoded again by         *)
(* decodeHashComponent is the text itself; the decoding never fails on an  *)
(* encoded text.                                                           *)

C12_ComponentRoundTrip == decoded # NotRun => decoded = Str(text)

\* A text of a percent sign, a dot and a non-ASCII character.
C12_Witness ==
    /\ text = "%.é"
    /\ encoded = Str(".25.2E.C3.A9")
    /\ decoded = Str("%.é")

(* C13: the link built for a message is a narrow link of its realm, and   *)
(* the anchor read from it is the message's id, also when the topic or the *)
(* stream's name holds "/" or is the word near or with.                    *)

\* A link was built for the message.
MessageLinkBuilt == message # NoMessage /\ url.hash # ""

C13_AnchorRoundTrip ==
    MessageLinkBuilt =>
        /\ isLink # NotRun => isLink.value
        /\ nearOperand # NotRun => nearOperand = Num(message.id)

\* A stream named a/b, known to byId, and the topic near.
C13_Witness ==
    /\ MessageLinkBuilt
    /\ message.type = "stream"
    /\ message.stream_id = 7
    /\ MapHasId(streamsById, 7)
    /\ message.subject = "near"
    /\ url.hash = "#narrow/stream/7-a-b/topic/near/near/1000"
    /\ isLink = [type |-> "boolean", value |-> TRUE]
    /\ nearOperand = Num(1000)

====
